---- MODULE Spec2Model ----
(***************************************************************************)
(* Model of the nutrition tracker: the session-backed diary store          *)
(* (utils/data_storage.py), the database-backed diary store                *)
(* (utils/database_storage.py over utils/database.py), the calculator      *)
(* (utils/nutrition_calculator.py), the catalog client (utils/usda_api.py),*)
(* the sign-in (utils/auth.py) and the handlers of the pages.              *)
(*                                                                         *)
(* Numbers that are Python floats in the source are exact rationals here,  *)
(* written <<numerator, denominator>> with a positive denominator; the     *)
(* rounding of binary floating point is not modelled.  Calendar days are   *)
(* day ordinals: date.isoformat() and strftime('%Y-%m-%d') are injective   *)
(* renderings of the ordinal and are only ever used as dictionary keys.    *)
(* The database store is modelled for one signed-in user: every query of   *)
(* DatabaseManager filters on that user's id.                              *)
(***************************************************************************)
EXTENDS Integers, Sequences, FiniteSets, TLC

VARIABLES
    daily_entries,         \* st.session_state.daily_entries: date -> list of entries
    food_database,         \* st.session_state.food_database: the catalog cache
    measurements_history,  \* st.session_state.measurements_history
    user_profile,          \* st.session_state.user_profile
    clock,                 \* datetime.now(), as a logical time
    today,                 \* date.today(), as a day ordinal
    food_entries,          \* rows of the food_entries table, in insertion order
    next_id,               \* the next primary key of the food_entries table
    measurements,          \* rows of the measurements table, in insertion order
    session_current_date,  \* st.session_state.current_date, as a day ordinal
    auth_session,          \* the sign-in keys of st.session_state
    query_params,          \* st.query_params: the query string of the page
    users,                 \* rows of the users table, in insertion order
    call                   \* the operation last performed, its arguments and result

vars == <<daily_entries, food_database, measurements_history, user_profile, clock, today,
          food_entries, next_id, measurements, session_current_date, auth_session,
          query_params,
          users, call>>

----------------------------------------------------------------------------
(* Bounds of the model *)

NumDates == 2
MaxClock == 3
MaxDays == 2
MaxHistory == 1
MaxRows == 2
MaxConsumed == 9
MaxGoal == 4
MaxPercent == 201
HistoryLimit == 3
MaxMeasureClock == 4
PastDays == 1
MaxBack == 7

Dates == 1..NumDates
Days == 1..MaxDays
EntryIds == 0..(MaxClock - 1)

----------------------------------------------------------------------------
(* Exact rationals *)

RECURSIVE Gcd(_, _)
Gcd(a, b) == IF b = 0 THEN a ELSE Gcd(b, a % b)

Abs(x) == IF x < 0 THEN 0 - x ELSE x

Rat(n, d) ==
    LET s == IF d < 0 THEN 0 - 1 ELSE 1
        g == Gcd(Abs(n), Abs(d))
    IN  <<(s * n) \div g, (s * d) \div g>>

Int2Rat(n) == <<n, 1>>
RAdd(a, b) == Rat(a[1] * b[2] + b[1] * a[2], a[2] * b[2])
RSub(a, b) == Rat(a[1] * b[2] - b[1] * a[2], a[2] * b[2])
RMul(a, b) == Rat(a[1] * b[1], a[2] * b[2])
RDiv(a, b) == Rat(a[1] * b[2], a[2] * b[1])
RLess(a, b) == a[1] * b[2] < b[1] * a[2]
RLeq(a, b) == a[1] * b[2] <= b[1] * a[2]
RMin(a, b) == IF RLess(b, a) THEN b ELSE a

----------------------------------------------------------------------------
(* Nutrient vectors: Python dicts from nutrient name to amount *)

EmptyDict == [n \in {} |-> 0]

\* dict.get(key, default)
Get(dict, key, default) == IF key \in DOMAIN dict THEN dict[key] ELSE default

\* The scaled nutrients of the foods a user can commit to the diary.  A
\* catalog item none of whose nutrients is in the mapping table is logged
\* with an empty nutrient dict.
Foods == {"apple", "egg", "water"}

FoodNutrients(food) ==
    CASE food = "apple" -> [n \in {"calories", "fiber"} |->
                               IF n = "calories" THEN 100 ELSE 4]
      [] food = "egg"   -> [n \in {"calories", "protein"} |->
                               IF n = "calories" THEN 150 ELSE 10]
      [] OTHER          -> EmptyDict

CachedFoods == {"apple"}

----------------------------------------------------------------------------
(* The session store: utils/data_storage.py *)

\* init_session_storage, and the profile app.py installs
DefaultProfile ==
    [age |-> 30, gender |-> "male", weight_kg |-> <<70, 1>>, height_cm |-> <<175, 1>>,
     activity_level |-> "moderate", goal |-> "maintain"]

\* init_session_storage on a fresh session, an empty food_entries table, and
\* no operation performed yet
Init ==
    /\ daily_entries = EmptyDict
    /\ food_database = EmptyDict
    /\ measurements_history = <<>>
    /\ user_profile = DefaultProfile
    /\ clock = 1
    /\ today = 1
    /\ food_entries = <<>>
    /\ next_id = 1
    /\ measurements = <<>>
    /\ session_current_date = 1
    /\ auth_session = EmptyDict
    /\ query_params = EmptyDict
    /\ users = <<>>
    /\ call = [op |-> "init"]

get_daily_entries(date_str) == Get(daily_entries, date_str, <<>>)

AddIntoOverwriting(totals, nutrients) ==
    [n \in DOMAIN totals \cup DOMAIN nutrients |->
        IF n \in DOMAIN nutrients THEN nutrients[n] ELSE totals[n]]

\* the inner loop of get_daily_totals: totals[nutrient] = totals.get(nutrient, 0) + amount
AddInto(totals, nutrients) ==
    [n \in DOMAIN totals \cup DOMAIN nutrients |->
        IF n \in DOMAIN nutrients
        THEN Get(totals, n, 0) + nutrients[n]
        ELSE totals[n]]

RECURSIVE TotalsLoop(_, _, _)
TotalsLoop(entries, i, totals) ==
    IF i > Len(entries) THEN totals
    ELSE TotalsLoop(entries, i + 1, AddInto(totals, entries[i].nutrients))

get_daily_totals(date_str) == TotalsLoop(get_daily_entries(date_str), 1, EmptyDict)

\* add_food_entry stamps the entry with the time and with the length of the
\* date's list, then appends it.  Every caller passes a freshly built dict, so
\* the stamping touches no entry already stored.
AddFoodEntryResult(entries, date_str, food_data, now) ==
    LET old == Get(entries, date_str, <<>>)
        entry == [food_name |-> food_data.food_name,
                  nutrients |-> food_data.nutrients,
                  timestamp |-> now,
                  entry_id  |-> Len(old)]
    IN  [d \in DOMAIN entries \cup {date_str} |->
            IF d = date_str THEN Append(old, entry) ELSE entries[d]]

add_food_entry(date_str, food_name) ==
    /\ clock <= MaxClock
    /\ daily_entries' = AddFoodEntryResult(daily_entries, date_str,
            [food_name |-> food_name, nutrients |-> FoodNutrients(food_name)], clock)
    /\ clock' = clock + 1
    /\ call' = [op |-> "add_food_entry", date |-> date_str]
    /\ UNCHANGED <<measurements, session_current_date, auth_session, query_params, users,
                 food_database, measurements_history, user_profile, today, food_entries, next_id>>

RemoveFoodEntryResult(entries, date_str, entry_id) ==
    IF date_str \in DOMAIN entries
    THEN [entries EXCEPT ![date_str] =
            SelectSeq(entries[date_str], LAMBDA e : e.entry_id # entry_id)]
    ELSE entries

remove_food_entry(date_str, entry_id) ==
    /\ daily_entries' = RemoveFoodEntryResult(daily_entries, date_str, entry_id)
    /\ call' = [op |-> "remove_food_entry", date |-> date_str, entry_id |-> entry_id]
    /\ UNCHANGED <<measurements, session_current_date, auth_session, query_params, users,
                 food_database, measurements_history, user_profile, clock, today, food_entries, next_id>>

GetDailyEntries(date_str) ==
    /\ call' = [op |-> "get_daily_entries", date |-> date_str,
                ret |-> get_daily_entries(date_str)]
    /\ UNCHANGED <<measurements, session_current_date, auth_session, query_params, users,
                 daily_entries, food_database, measurements_history, user_profile, clock, today,
                   food_entries, next_id>>

GetDailyTotals(date_str) ==
    /\ call' = [op |-> "get_daily_totals", date |-> date_str,
                ret |-> get_daily_totals(date_str)]
    /\ UNCHANGED <<measurements, session_current_date, auth_session, query_params, users,
                 daily_entries, food_database, measurements_history, user_profile, clock, today,
                   food_entries, next_id>>

\* cache_food_data: keyed by str(fdc_id)
cache_food_data(fdc_id) ==
    /\ food_database' = [k \in DOMAIN food_database \cup {fdc_id} |->
            IF k = fdc_id THEN FoodNutrients(fdc_id) ELSE food_database[k]]
    /\ call' = [op |-> "cache_food_data", fdc_id |-> fdc_id]
    /\ UNCHANGED <<measurements, session_current_date, auth_session, query_params, users,
                 daily_entries, measurements_history, user_profile, clock, today,
                   food_entries, next_id>>

\* dict.update(other)
DictUpdate(dict, other) ==
    [k \in DOMAIN dict \cup DOMAIN other |->
        IF k \in DOMAIN other THEN other[k] ELSE dict[k]]

\* What a backup file may hold: for some dates a list of entries exported by
\* an earlier session, measurements, profile fields.
BackupEntry ==
    [food_name |-> "apple", nutrients |-> FoodNutrients("apple"),
     timestamp |-> 0, entry_id |-> 0]

BackupLists == {<<>>, <<BackupEntry>>}

BackupDailyEntries ==
    {EmptyDict} \cup {[k \in {d} |-> l] : d \in Dates, l \in BackupLists}

BackupMeasurements == {<<[date |-> 1, weight_kg |-> 70]>>}

BackupProfiles == {[k \in {"goal"} |-> "lose"]}

\* export_data writes all three keys; a hand-made file may hold fewer.
BackupKeys ==
    {{"daily_entries", "measurements_history", "user_profile"}, {"daily_entries"}, {}}

ImportDailyEntries(entries, keys, backup) ==
    IF "daily_entries" \in keys THEN DictUpdate(entries, backup) ELSE entries

import_data(keys, de, mh, up) ==
    /\ "measurements_history" \in keys =>
            Len(measurements_history) + Len(mh) <= MaxHistory
    /\ daily_entries' = ImportDailyEntries(daily_entries, keys, de)
    /\ measurements_history' =
            IF "measurements_history" \in keys
            THEN measurements_history \o mh ELSE measurements_history
    /\ user_profile' =
            IF "user_profile" \in keys
            THEN DictUpdate(user_profile, up) ELSE user_profile
    /\ call' = [op |-> "import_data"]
    /\ UNCHANGED <<measurements, session_current_date, auth_session, query_params, users,
                 food_database, clock, today, food_entries, next_id>>

clear_all_data ==
    /\ daily_entries' = EmptyDict
    /\ food_database' = EmptyDict
    /\ measurements_history' = <<>>
    /\ call' = [op |-> "clear_all_data"]
    /\ UNCHANGED <<measurements, session_current_date, auth_session, query_params, users,
                 user_profile, clock, today, food_entries, next_id>>

\* sum(values)
RECURSIVE SumSeq(_)
SumSeq(values) ==
    IF values = <<>> THEN 0 ELSE Head(values) + SumSeq(Tail(values))

\* One iteration of the date loop of get_nutrition_summary
SummaryStep(summary, date_str, daily_totals) ==
    IF DOMAIN daily_totals # {}
    THEN [total_days    |-> summary.total_days + 1,
          dates_tracked |-> Append(summary.dates_tracked, date_str),
          avg_nutrients |->
              [n \in DOMAIN summary.avg_nutrients \cup DOMAIN daily_totals |->
                  IF n \in DOMAIN daily_totals
                  THEN Append(Get(summary.avg_nutrients, n, <<>>), daily_totals[n])
                  ELSE summary.avg_nutrients[n]]]
    ELSE summary

RECURSIVE SummaryLoop(_, _, _)
SummaryLoop(current_date, end_date, summary) ==
    IF current_date > end_date THEN summary
    ELSE SummaryLoop(current_date + 1, end_date,
                     SummaryStep(summary, current_date, get_daily_totals(current_date)))

\* sum(values) / len(values), for each nutrient
Averages(lists) == [n \in DOMAIN lists |-> Rat(SumSeq(lists[n]), Len(lists[n]))]

get_nutrition_summary(days) ==
    LET end_date == today
        start_date == end_date - (days - 1)
        looped == SummaryLoop(start_date, end_date,
                      [total_days |-> 0, avg_nutrients |-> EmptyDict,
                       dates_tracked |-> <<>>])
    IN  [total_days    |-> looped.total_days,
         avg_nutrients |-> Averages(looped.avg_nutrients),
         dates_tracked |-> looped.dates_tracked]

GetNutritionSummary(days) ==
    /\ call' = [op |-> "get_nutrition_summary", days |-> days,
                ret |-> get_nutrition_summary(days)]
    /\ UNCHANGED <<measurements, session_current_date, auth_session, query_params, users,
                 daily_entries, food_database, measurements_history, user_profile,
                   clock, today, food_entries, next_id>>

\* Midnight passes: date.today() moves on.
NextDay ==
    /\ today < NumDates
    /\ today' = today + 1
    /\ call' = [op |-> "next_day"]
    /\ UNCHANGED <<measurements, session_current_date, auth_session, query_params, users,
                 daily_entries, food_database, measurements_history, user_profile,
                   clock, food_entries, next_id>>

\* The diary of a guest session
NextStore ==
    \/ \E d \in Dates, f \in Foods : add_food_entry(d, f)
    \/ \E d \in Dates, i \in EntryIds : remove_food_entry(d, i)
    \/ \E d \in Dates : GetDailyEntries(d)
    \/ \E d \in Dates : GetDailyTotals(d)
    \/ clear_all_data

\* The diary of a guest session into which backups are imported
NextBackup ==
    \/ \E d \in Dates, f \in Foods : add_food_entry(d, f)
    \/ \E d \in Dates, i \in EntryIds : remove_food_entry(d, i)
    \/ \E d \in Dates : GetDailyEntries(d)
    \/ \E keys \in BackupKeys, de \in BackupDailyEntries,
          mh \in BackupMeasurements, up \in BackupProfiles :
            import_data(keys, de, mh, up)
    \/ clear_all_data

\* The diary with its weekly summary, as the days pass
NextSummary ==
    \/ \E d \in Dates, f \in Foods : add_food_entry(d, f)
    \/ \E d \in Dates, i \in EntryIds : remove_food_entry(d, i)
    \/ \E f \in CachedFoods : cache_food_data(f)
    \/ \E n \in Days : GetNutritionSummary(n)
    \/ NextDay

SpecSummary == Init /\ [][NextSummary]_vars

SpecBackup == Init /\ [][NextBackup]_vars

SpecStore == Init /\ [][NextStore]_vars

----------------------------------------------------------------------------
(* The database store: utils/database_storage.py over utils/database.py *)

\* json.dumps of a nutrient dict, as the set of its "key": value members
json_dumps(dict) == {<<k, dict[k]>> : k \in DOMAIN dict}

\* json.loads of such a text
json_loads(text) ==
    [k \in {m[1] : m \in text} |-> (CHOOSE m \in text : m[1] = k)[2]]

RECURSIVE MaxId(_)
MaxId(rows) ==
    IF rows = <<>> THEN 0
    ELSE LET m == MaxId(Tail(rows))
         IN  IF Head(rows).id > m THEN Head(rows).id ELSE m

\* DatabaseManager.add_food_entry: the row gets a fresh integer primary key.
\* A sequence-backed key (PostgreSQL) is never reused; SQLite's rowid is one
\* more than the largest key in the table.
DbInsert(rows, id, date_str, food_data) ==
    Append(rows, [id |-> id, date |-> date_str,
                  food_name |-> food_data.food_name,
                  nutrients |-> json_dumps(food_data.nutrients)])

db_add_food_entry(date_str, food_name) ==
    /\ next_id <= MaxRows
    /\ \E id \in {next_id, MaxId(food_entries) + 1} :
        /\ food_entries' = DbInsert(food_entries, id, date_str,
                [food_name |-> food_name, nutrients |-> FoodNutrients(food_name)])
        /\ next_id' = IF id + 1 > next_id THEN id + 1 ELSE next_id
    /\ call' = [op |-> "db_add_food_entry", date |-> date_str]
    /\ UNCHANGED <<measurements, session_current_date, auth_session, query_params, users,
                 daily_entries, food_database, measurements_history, user_profile,
                   clock, today>>

\* DatabaseManager.get_food_entries(user_id, date), reshaped by
\* DatabaseDataStorage.get_daily_entries
RECURSIVE FormatRows(_)
FormatRows(rows) ==
    IF rows = <<>> THEN <<>>
    ELSE <<[id |-> Head(rows).id, food_name |-> Head(rows).food_name,
            nutrients |-> json_loads(Head(rows).nutrients)]>>
         \o FormatRows(Tail(rows))

db_get_daily_entries(date_str) ==
    FormatRows(SelectSeq(food_entries, LAMBDA r : r.date = date_str))

\* DatabaseDataStorage.get_daily_totals: every amount of the model is a number
RECURSIVE DbTotalsLoop(_, _, _)
DbTotalsLoop(entries, i, totals) ==
    IF i > Len(entries) THEN totals
    ELSE DbTotalsLoop(entries, i + 1, AddInto(totals, entries[i].nutrients))

db_get_daily_totals(date_str) == DbTotalsLoop(db_get_daily_entries(date_str), 1, EmptyDict)

\* DatabaseManager.remove_food_entry: the row with that primary key, whatever its date
db_remove_food_entry(date_str, entry_id) ==
    /\ food_entries' = SelectSeq(food_entries, LAMBDA r : r.id # entry_id)
    /\ call' = [op |-> "db_remove_food_entry", date |-> date_str, entry_id |-> entry_id]
    /\ UNCHANGED <<measurements, session_current_date, auth_session, query_params, users,
                 daily_entries, food_database, measurements_history, user_profile,
                   clock, today, next_id>>

DbGetDailyTotals(date_str) ==
    /\ call' = [op |-> "db_get_daily_totals", date |-> date_str,
                ret |-> db_get_daily_totals(date_str)]
    /\ UNCHANGED <<measurements, session_current_date, auth_session, query_params, users,
                 daily_entries, food_database, measurements_history, user_profile,
                   clock, today, food_entries, next_id>>

Macros == {"calories", "protein", "carbohydrates", "fat"}

\* One iteration of the date loop of DatabaseDataStorage.get_nutrition_summary
DbSummaryStep(acc, daily_totals) ==
    IF DOMAIN daily_totals # {}
    THEN [days_with_data |-> acc.days_with_data + 1,
          total_calories |-> acc.total_calories + Get(daily_totals, "calories", 0),
          total_protein  |-> acc.total_protein + Get(daily_totals, "protein", 0),
          total_carbs    |-> acc.total_carbs + Get(daily_totals, "carbohydrates", 0),
          total_fat      |-> acc.total_fat + Get(daily_totals, "fat", 0),
          nutrients      |->
              [n \in DOMAIN acc.nutrients \cup (DOMAIN daily_totals \ Macros) |->
                  IF n \in DOMAIN daily_totals
                  THEN Get(acc.nutrients, n, 0) + daily_totals[n]
                  ELSE acc.nutrients[n]]]
    ELSE acc

RECURSIVE DbSummaryLoop(_, _, _)
DbSummaryLoop(current_date, end_date, acc) ==
    IF current_date > end_date THEN acc
    ELSE DbSummaryLoop(current_date + 1, end_date,
                       DbSummaryStep(acc, db_get_daily_totals(current_date)))

db_get_nutrition_summary(days) ==
    LET end_date == today
        start_date == end_date - (days - 1)
        acc == DbSummaryLoop(start_date, end_date,
                   [days_with_data |-> 0, total_calories |-> 0, total_protein |-> 0,
                    total_carbs |-> 0, total_fat |-> 0, nutrients |-> EmptyDict])
        n == acc.days_with_data
    IN  IF n > 0
        THEN [total_days        |-> days,
              days_with_entries |-> n,
              avg_calories      |-> Rat(acc.total_calories, n),
              avg_protein       |-> Rat(acc.total_protein, n),
              avg_carbohydrates |-> Rat(acc.total_carbs, n),
              avg_fat           |-> Rat(acc.total_fat, n),
              nutrients         |-> [k \in DOMAIN acc.nutrients |-> Rat(acc.nutrients[k], n)]]
        ELSE [total_days        |-> days,
              days_with_entries |-> 0,
              avg_calories      |-> Int2Rat(0),
              avg_protein       |-> Int2Rat(0),
              avg_carbohydrates |-> Int2Rat(0),
              avg_fat           |-> Int2Rat(0),
              nutrients         |-> acc.nutrients]

DbGetNutritionSummary(days) ==
    /\ call' = [op |-> "db_get_nutrition_summary", days |-> days,
                ret |-> db_get_nutrition_summary(days)]
    /\ UNCHANGED <<measurements, session_current_date, auth_session, query_params, users,
                 daily_entries, food_database, measurements_history, user_profile,
                   clock, today, food_entries, next_id>>

\* The diary of a signed-in user
NextDb ==
    \/ \E d \in Dates, f \in Foods : db_add_food_entry(d, f)
    \/ \E d \in Dates, i \in 1..MaxRows : db_remove_food_entry(d, i)
    \/ \E d \in Dates : DbGetDailyTotals(d)
    \/ \E n \in Days : DbGetNutritionSummary(n)
    \/ NextDay

SpecDb == Init /\ [][NextDb]_vars

----------------------------------------------------------------------------
(* Properties of the diary stores *)

\* The sum of nutrient n over the entries at the positions S of a list
RECURSIVE SumOver(_, _, _)
SumOver(S, entries, n) ==
    IF S = {} THEN 0
    ELSE LET i == CHOOSE j \in S : TRUE
         IN  Get(entries[i].nutrients, n, 0) + SumOver(S \ {i}, entries, n)

KeysOf(entries) == UNION {DOMAIN entries[i].nutrients : i \in 1..Len(entries)}

\* C1: in the session store get_daily_totals(d) maps each nutrient to the sum
\* of that nutrient over exactly the entries get_daily_entries(d) lists, and
\* is the empty mapping for a date that holds no entries.
C1_DailyTotalsAreSums ==
    call.op = "get_daily_totals" =>
        LET entries == get_daily_entries(call.date)
        IN  /\ DOMAIN call.ret = KeysOf(entries)
            /\ \A n \in KeysOf(entries) :
                    call.ret[n] = SumOver(1..Len(entries), entries, n)
            /\ entries = <<>> => call.ret = EmptyDict

\* C1 witness: the totals of a date read when it lists an apple and an egg
\* that carry the same entry_id, which takes two adds, a remove and a third add.
C1_Witness ==
    /\ call.op = "get_daily_totals"
    /\ Len(get_daily_entries(call.date)) = 2
    /\ get_daily_entries(call.date)[1].entry_id = get_daily_entries(call.date)[2].entry_id
    /\ DOMAIN call.ret = {"calories", "protein", "fiber"}
    /\ call.ret["calories"] = 250

\* Whether the step just taken is remove_food_entry aimed at entry e of date d
RemovedByStep(d, e) ==
    /\ call'.op = "remove_food_entry"
    /\ call'.date = d
    /\ call'.entry_id = e.entry_id

\* C2: an entry written with add_food_entry(d, e) is in the next
\* get_daily_entries(d), and every stored entry stays listed under its date
\* across every step that neither removes it nor clears the store.
C2_WrittenEntryStaysVisible ==
    [][/\ call'.op = "add_food_entry" =>
            \E i \in 1..Len(Get(daily_entries', call'.date, <<>>)) :
                daily_entries'[call'.date][i].timestamp = clock
       /\ \A d \in DOMAIN daily_entries : \A i \in 1..Len(daily_entries[d]) :
            (~RemovedByStep(d, daily_entries[d][i]) /\ call'.op # "clear_all_data")
                => \E j \in 1..Len(Get(daily_entries', d, <<>>)) :
                        daily_entries'[d][j] = daily_entries[d][i]]_vars

\* C3: no operation other than remove_food_entry (or clear_all_data) changes
\* or drops a stored entry: across add_food_entry, import_data and the reads
\* every date's list keeps each entry, unchanged, at its position.
C3_EntriesImmutable ==
    [][call'.op \notin {"remove_food_entry", "clear_all_data"} =>
            \A d \in DOMAIN daily_entries :
                /\ Len(Get(daily_entries', d, <<>>)) >= Len(daily_entries[d])
                /\ \A i \in 1..Len(daily_entries[d]) :
                        daily_entries'[d][i] = daily_entries[d][i]]_vars

\* The dates get_nutrition_summary(days) looks at
Window(days) == (today - (days - 1))..today

\* C4: get_nutrition_summary(N) reports as total_days the number of days of
\* the last N that have at least one entry; stated for the database store.
C4_TotalDaysCountsTrackedDays ==
    call.op = "db_get_nutrition_summary" =>
        call.ret.total_days =
            Cardinality({d \in Window(call.days) : db_get_daily_entries(d) # <<>>})

\* The days of the window that have at least one entry in the session store
TrackedDays(days) == {d \in Window(days) : get_daily_entries(d) # <<>>}

RECURSIVE SumTotals(_, _)
SumTotals(S, n) ==
    IF S = {} THEN 0
    ELSE LET d == CHOOSE x \in S : TRUE
         IN  Get(get_daily_totals(d), n, 0) + SumTotals(S \ {d}, n)

\* C5: every average of get_nutrition_summary(N) is the sum of the nutrient's
\* daily totals over the days of the window that have an entry, divided by
\* the number of those days; stated for the session store.
C5_AverageOverTrackedDays ==
    call.op = "get_nutrition_summary" =>
        \A n \in DOMAIN call.ret.avg_nutrients :
            call.ret.avg_nutrients[n] =
                Rat(SumTotals(TrackedDays(call.days), n),
                    Cardinality(TrackedDays(call.days)))

----------------------------------------------------------------------------
(* The calculator: utils/nutrition_calculator.py *)

\* str.lower() on the gender strings of the model
Lower(str) ==
    CASE str \in {"male", "Male", "MALE"} -> "male"
      [] str \in {"female", "Female"}     -> "female"
      [] OTHER                            -> str

calculate_bmr_exact_match(weight_kg, height_cm, age, gender) ==
    LET base == RSub(RAdd(RMul(Int2Rat(10), weight_kg), RMul(Rat(625, 100), height_cm)),
                     Int2Rat(5 * age))
    IN  IF gender = "male"
        THEN RAdd(base, Int2Rat(5))
        ELSE RSub(base, Int2Rat(161))

calculate_bmr(weight_kg, height_cm, age, gender) ==
    LET base == RSub(RAdd(RMul(Int2Rat(10), weight_kg), RMul(Rat(625, 100), height_cm)),
                     Int2Rat(5 * age))
    IN  IF Lower(gender) = "male"
        THEN RAdd(base, Int2Rat(5))
        ELSE RSub(base, Int2Rat(161))

activity_multipliers ==
    [level \in {"sedentary", "light", "moderate", "very_active", "extremely_active"} |->
        CASE level = "sedentary"   -> Rat(12, 10)
          [] level = "light"       -> Rat(1375, 1000)
          [] level = "moderate"    -> Rat(155, 100)
          [] level = "very_active" -> Rat(1725, 1000)
          [] OTHER                 -> Rat(19, 10)]

calculate_tdee_sedentary_default(bmr, activity_level) ==
    RMul(bmr, Get(activity_multipliers, activity_level, Rat(12, 10)))

calculate_tdee(bmr, activity_level) ==
    RMul(bmr, Get(activity_multipliers, activity_level, Rat(155, 100)))

calculate_nutrient_percentage_uncapped(consumed, goal) ==
    IF goal[1] = 0 THEN Int2Rat(0)
    ELSE RMul(RDiv(consumed, goal), Int2Rat(100))

calculate_nutrient_percentage_inverted(consumed, goal) ==
    IF goal[1] = 0 THEN Int2Rat(0)
    ELSE RMin(RMul(RDiv(goal, consumed), Int2Rat(100)), Int2Rat(200))

calculate_nutrient_percentage(consumed, goal) ==
    IF goal[1] = 0 THEN Int2Rat(0)
    ELSE RMin(RMul(RDiv(consumed, goal), Int2Rat(100)), Int2Rat(200))

get_nutrient_status_inclusive(percentage) ==
    IF RLeq(percentage, Int2Rat(25)) THEN <<"Very Low", "red">>
    ELSE IF RLeq(percentage, Int2Rat(50)) THEN <<"Low", "orange">>
    ELSE IF RLeq(percentage, Int2Rat(75)) THEN <<"Moderate", "yellow">>
    ELSE IF RLeq(percentage, Int2Rat(100)) THEN <<"Good", "green">>
    ELSE IF RLeq(percentage, Int2Rat(150)) THEN <<"Excellent", "green_heart">>
    ELSE <<"High", "blue">>

\* the status and the name of its colour mark
get_nutrient_status(percentage) ==
    IF RLess(percentage, Int2Rat(25)) THEN <<"Very Low", "red">>
    ELSE IF RLess(percentage, Int2Rat(50)) THEN <<"Low", "orange">>
    ELSE IF RLess(percentage, Int2Rat(75)) THEN <<"Moderate", "yellow">>
    ELSE IF RLess(percentage, Int2Rat(100)) THEN <<"Good", "green">>
    ELSE IF RLess(percentage, Int2Rat(150)) THEN <<"Excellent", "green_heart">>
    ELSE <<"High", "blue">>

\* Inputs of the calculator
WeightValues == {Int2Rat(20), Int2Rat(70), Rat(141, 2), Int2Rat(300)}
HeightValues == {Int2Rat(100), Int2Rat(175), Rat(351, 2), Int2Rat(250)}
AgeValues == {10, 30, 51, 71, 120}
GenderStrings == {"male", "female", "Male", "MALE", "Female", "other", ""}
ActivityStrings ==
    {"sedentary", "light", "moderate", "very_active", "extremely_active",
     "Moderate", "couch", ""}
BmrValues ==
    {Int2Rat(0)} \cup
    {calculate_bmr(w, h, 30, g) : w \in WeightValues, h \in HeightValues,
                                   g \in {"male", "female"}}
ConsumedValues == {Rat(n, 2) : n \in 0..(2 * MaxConsumed)}
GoalValues == {Rat(n, 2) : n \in (0 - 2)..(2 * MaxGoal)}
PercentageValues == {Rat(n, 2) : n \in (0 - 2)..(2 * MaxPercent)}

StoreUnchanged ==
    UNCHANGED <<measurements, session_current_date, auth_session, query_params, users,
                 daily_entries, food_database, measurements_history, user_profile,
                clock, today, food_entries, next_id>>

CalculateBmr(weight_kg, height_cm, age, gender) ==
    /\ call' = [op |-> "calculate_bmr", weight_kg |-> weight_kg,
                height_cm |-> height_cm, age |-> age, gender |-> gender,
                ret |-> calculate_bmr(weight_kg, height_cm, age, gender)]
    /\ StoreUnchanged

CalculateTdee(bmr, activity_level) ==
    /\ call' = [op |-> "calculate_tdee", bmr |-> bmr, activity_level |-> activity_level,
                ret |-> calculate_tdee(bmr, activity_level)]
    /\ StoreUnchanged

CalculateNutrientPercentage(consumed, goal) ==
    /\ call' = [op |-> "calculate_nutrient_percentage", consumed |-> consumed,
                goal |-> goal, ret |-> calculate_nutrient_percentage(consumed, goal)]
    /\ StoreUnchanged

GetNutrientStatus(percentage) ==
    /\ call' = [op |-> "get_nutrient_status", percentage |-> percentage,
                ret |-> get_nutrient_status(percentage)]
    /\ StoreUnchanged

NextCalc ==
    \/ \E w \in WeightValues, h \in HeightValues, a \in AgeValues, g \in GenderStrings :
            CalculateBmr(w, h, a, g)
    \/ \E b \in BmrValues, l \in ActivityStrings : CalculateTdee(b, l)
    \/ \E c \in ConsumedValues, g \in GoalValues : CalculateNutrientPercentage(c, g)
    \/ \E p \in PercentageValues : GetNutrientStatus(p)

SpecCalc == Init /\ [][NextCalc]_vars

----------------------------------------------------------------------------
(* Daily goals: NutritionCalculator.calculate_daily_goals and its callers *)

\* self.daily_values, the static reference table
daily_values ==
    [calories |-> Int2Rat(2000), protein |-> Int2Rat(50), fat |-> Int2Rat(65),
     carbohydrates |-> Int2Rat(300), fiber |-> Int2Rat(25), sugar |-> Int2Rat(50),
     vitamin_a |-> Int2Rat(900), vitamin_c |-> Int2Rat(90), vitamin_d |-> Int2Rat(20),
     vitamin_e |-> Int2Rat(15), vitamin_k |-> Int2Rat(120), vitamin_b1 |-> Rat(12, 10),
     vitamin_b2 |-> Rat(13, 10), vitamin_b3 |-> Int2Rat(16), vitamin_b5 |-> Int2Rat(5),
     vitamin_b6 |-> Rat(13, 10), vitamin_b12 |-> Rat(24, 10), folate |-> Int2Rat(400),
     calcium |-> Int2Rat(1000), iron |-> Int2Rat(8), magnesium |-> Int2Rat(400),
     phosphorus |-> Int2Rat(700), potassium |-> Int2Rat(3500), sodium |-> Int2Rat(2300),
     zinc |-> Int2Rat(11), copper |-> Rat(9, 10), manganese |-> Rat(23, 10),
     selenium |-> Int2Rat(55), cholesterol |-> Int2Rat(300),
     saturated_fat |-> Int2Rat(20)]

adjusted_calories_lose_only(tdee, goal) ==
    IF goal = "lose" THEN RSub(tdee, Int2Rat(500))
    ELSE tdee

\* "Adjust calories based on goal"
adjusted_calories(tdee, goal) ==
    IF goal = "lose" THEN RSub(tdee, Int2Rat(500))
    ELSE IF goal = "gain" THEN RAdd(tdee, Int2Rat(500))
    ELSE tdee

macro_goals_fat_by_four(calories) ==
    [calories |-> calories,
     protein |-> RDiv(RMul(calories, Rat(15, 100)), Int2Rat(4)),
     fat |-> RDiv(RMul(calories, Rat(30, 100)), Int2Rat(4)),
     carbohydrates |-> RDiv(RMul(calories, Rat(55, 100)), Int2Rat(4))]

\* "Calculate macronutrient goals": the four keys written by goals.update
macro_goals(calories) ==
    [calories |-> calories,
     protein |-> RDiv(RMul(calories, Rat(15, 100)), Int2Rat(4)),
     fat |-> RDiv(RMul(calories, Rat(30, 100)), Int2Rat(9)),
     carbohydrates |-> RDiv(RMul(calories, Rat(55, 100)), Int2Rat(4))]

gender_goals_not_male(goals, gender, age) ==
    IF Lower(gender) # "male"
    THEN DictUpdate(goals, [iron |-> Int2Rat(IF age < 51 THEN 18 ELSE 8),
                            folate |-> Int2Rat(400)])
    ELSE goals

gender_goals_any_age(goals, gender, age) ==
    IF Lower(gender) = "female"
    THEN DictUpdate(goals, [iron |-> Int2Rat(18), folate |-> Int2Rat(400)])
    ELSE goals

\* "Adjust for gender and age": the branch on gender
gender_goals(goals, gender, age) ==
    IF Lower(gender) = "female"
    THEN DictUpdate(goals, [iron |-> Int2Rat(IF age < 51 THEN 18 ELSE 8),
                            folate |-> Int2Rat(400)])
    ELSE goals

age_goals_from_seventy(goals, age) ==
    IF age >= 70
    THEN DictUpdate(goals, [vitamin_d |-> Int2Rat(20), calcium |-> Int2Rat(1200)])
    ELSE goals

\* "Adjust for gender and age": the branch on age
age_goals(goals, age) ==
    IF age > 70
    THEN DictUpdate(goals, [vitamin_d |-> Int2Rat(20), calcium |-> Int2Rat(1200)])
    ELSE goals

calculate_daily_goals(tdee, goal, gender, age) ==
    LET calories == adjusted_calories(tdee, goal)
        goals == DictUpdate(daily_values, macro_goals(calories))
    IN  age_goals(gender_goals(goals, gender, age), age)

\* weight_kg / (height_cm / 100) ** 2
calculate_bmi(weight_kg, height_cm) ==
    LET height_m == RDiv(height_cm, Int2Rat(100))
    IN  RDiv(weight_kg, RMul(height_m, height_m))

\* Arguments of the goal calculation: nothing in the calculator restricts
\* them to what the settings form offers.
TdeeValues ==
    {Int2Rat(500)} \cup
    {calculate_tdee(b, l) : b \in {Int2Rat(64), Rat(6595, 4)},
                            l \in {"sedentary", "moderate"}}
GoalStrings == {"lose", "maintain", "gain", "bulk"}
GoalGenderStrings == {"male", "female", "Female", "other"}
GoalAgeValues == {0 - 1, 0, 10, 50, 51, 70, 71, 120}
BodyValues == {Int2Rat(0 - 70), Int2Rat(0), Int2Rat(70), Rat(351, 2)}

CalculateDailyGoals(tdee, goal, gender, age) ==
    /\ call' = [op |-> "calculate_daily_goals", tdee |-> tdee, goal |-> goal,
                gender |-> gender, age |-> age,
                ret |-> calculate_daily_goals(tdee, goal, gender, age)]
    /\ StoreUnchanged

\* A float division by zero raises ZeroDivisionError: the call has no return
\* value then.
CalculateBmi(weight_kg, height_cm) ==
    /\ call' = IF height_cm[1] = 0
               THEN [op |-> "calculate_bmi", weight_kg |-> weight_kg,
                     height_cm |-> height_cm, raised |-> "ZeroDivisionError"]
               ELSE [op |-> "calculate_bmi", weight_kg |-> weight_kg,
                     height_cm |-> height_cm,
                     ret |-> calculate_bmi(weight_kg, height_cm)]
    /\ StoreUnchanged

NextGoals ==
    \/ \E t \in TdeeValues, g \in GoalStrings, s \in GoalGenderStrings,
          a \in GoalAgeValues :
            CalculateDailyGoals(t, g, s, a)
    \/ \E w \in BodyValues, h \in BodyValues : CalculateBmi(w, h)
    \/ \E w \in BodyValues, h \in BodyValues, a \in {0, 30},
          s \in {"male", "Male", "other"} : CalculateBmr(w, h, a, s)

SpecGoals == Init /\ [][NextGoals]_vars

\* What the settings form offers: number inputs bounded to 10..120 years,
\* 20..300 kg and 100..250 cm, and three select boxes
FormAges == {10, 30, 120}
FormWeights == {Int2Rat(20), Rat(141, 2), Int2Rat(300)}
FormHeights == {Int2Rat(100), Rat(351, 2), Int2Rat(250)}
FormGenders == {"male", "female"}
FormActivityLevels == {"sedentary", "light", "moderate", "very_active", "extremely_active"}
FormGoals == {"lose", "maintain", "gain"}

\* show_settings, "Save Settings" pressed
show_settings(age, gender, weight, height, activity_level, goal) ==
    /\ user_profile' =
            DictUpdate(user_profile,
                       [age |-> age, gender |-> gender, weight_kg |-> weight,
                        height_cm |-> height, activity_level |-> activity_level,
                        goal |-> goal])
    /\ call' = [op |-> "show_settings"]
    /\ UNCHANGED <<measurements, session_current_date, auth_session, query_params, users,
                 daily_entries, food_database, measurements_history, clock, today,
                   food_entries, next_id>>

\* show_progress_view, "Calculate daily goals"
show_progress_view ==
    LET bmr == calculate_bmr(user_profile.weight_kg, user_profile.height_cm,
                             user_profile.age, user_profile.gender)
        tdee == calculate_tdee(bmr, user_profile.activity_level)
        daily_goals == calculate_daily_goals(tdee, user_profile.goal,
                                             user_profile.gender, user_profile.age)
    IN  /\ call' = [op |-> "show_progress_view", ret |-> daily_goals]
        /\ StoreUnchanged

NextProfile ==
    \/ \E a \in FormAges, s \in FormGenders, w \in FormWeights, h \in FormHeights,
          l \in FormActivityLevels, g \in FormGoals : show_settings(a, s, w, h, l, g)
    \/ show_progress_view

SpecProfile == Init /\ [][NextProfile]_vars

----------------------------------------------------------------------------
(* Portions: NutritionCalculator.scale_nutrients_by_portion *)

scale_nutrients_by_portion_per_hundred(nutrients, portion_grams, reference_portion) ==
    LET scaling_factor == RDiv(portion_grams, Int2Rat(100))
    IN  [nutrient \in DOMAIN nutrients |-> RMul(nutrients[nutrient], scaling_factor)]

scale_nutrients_by_portion_twice(nutrients, portion_grams, reference_portion) ==
    LET scaling_factor == RDiv(portion_grams, reference_portion)
    IN  [nutrient \in DOMAIN nutrients |->
            RMul(RMul(nutrients[nutrient], scaling_factor), scaling_factor)]

scale_nutrients_by_portion(nutrients, portion_grams, reference_portion) ==
    LET scaling_factor == RDiv(portion_grams, reference_portion)
    IN  [nutrient \in DOMAIN nutrients |-> RMul(nutrients[nutrient], scaling_factor)]

\* Normalized nutrients of a catalog item, per reference portion
NutrientVectors ==
    {EmptyDict,
     [calories |-> Int2Rat(52), fiber |-> Rat(24, 10)],
     [calories |-> Int2Rat(155), protein |-> Rat(126, 10)],
     [vitamin_b1 |-> Rat(12, 10)]}

\* Portions in grams the function can be handed: the callers pass the form's
\* portion and the catalog item's serving_size, the function takes any number.
PortionValues ==
    {Int2Rat(0 - 50), Int2Rat(0), Int2Rat(1), Int2Rat(50), Int2Rat(100), Rat(301, 2)}

\* portion_grams / reference_portion raises ZeroDivisionError when
\* reference_portion is 0; otherwise a new dict is built and the argument is
\* never assigned to.
ScaleNutrientsByPortion(nutrients, portion_grams, reference_portion) ==
    /\ call' = IF reference_portion[1] = 0
               THEN [op |-> "scale_nutrients_by_portion", nutrients |-> nutrients,
                     portion_grams |-> portion_grams,
                     reference_portion |-> reference_portion,
                     nutrients_after |-> nutrients,
                     raised |-> "ZeroDivisionError"]
               ELSE [op |-> "scale_nutrients_by_portion", nutrients |-> nutrients,
                     portion_grams |-> portion_grams,
                     reference_portion |-> reference_portion,
                     nutrients_after |-> nutrients,
                     ret |-> scale_nutrients_by_portion(nutrients, portion_grams,
                                                        reference_portion)]
    /\ StoreUnchanged

NextScale ==
    \E v \in NutrientVectors, p \in PortionValues, r \in PortionValues :
        ScaleNutrientsByPortion(v, p, r)

SpecScale == Init /\ [][NextScale]_vars

----------------------------------------------------------------------------
(* Properties of the calculator *)

\* C6: calculate_nutrient_percentage(consumed, goal) is
\* min(consumed / goal * 100, 200) when goal is not 0 and is 0 when goal is 0.
C6_PercentageValue ==
    call.op = "calculate_nutrient_percentage" =>
        LET n == 100 * call.consumed[1] * call.goal[2]
            d == call.consumed[2] * call.goal[1]
            over == IF d > 0 THEN n > 200 * d ELSE n < 200 * d
        IN  IF call.goal[1] = 0 THEN call.ret = <<0, 1>>
            ELSE IF over THEN call.ret = <<200, 1>>
            ELSE call.ret = Rat(n, d)

\* C6 witness: a positive amount measured against a goal of 0 gave 0.
C6_Witness ==
    /\ call.op = "calculate_nutrient_percentage"
    /\ call.goal = <<0, 1>>
    /\ call.consumed = <<9, 1>>
    /\ call.ret = <<0, 1>>

\* C7: for a fixed goal g > 0, a call with a consumed amount at least as
\* large as the previous call's returns at least as much, and never more
\* than 200.
C7_PercentageMonotone ==
    [][(/\ call.op = "calculate_nutrient_percentage"
        /\ call'.op = "calculate_nutrient_percentage"
        /\ call'.goal = call.goal
        /\ call.goal[1] > 0
        /\ RLeq(call.consumed, call'.consumed))
            => /\ RLeq(call.ret, call'.ret)
               /\ RLeq(call'.ret, <<200, 1>>)]_vars

\* C7 witness: 9 consumed against a goal of 4 is 225 %, reported as 200.
C7_Witness ==
    /\ call.op = "calculate_nutrient_percentage"
    /\ call.goal = <<4, 1>>
    /\ call.consumed = <<9, 1>>
    /\ call.ret = <<200, 1>>

\* C8: get_nutrient_status gives below 25 "Very Low", 25 to below 50 "Low",
\* 50 to below 75 "Moderate", 75 to below 100 "Good", 100 to below 150
\* "Excellent", 150 and above "High".
C8_StatusBuckets ==
    call.op = "get_nutrient_status" =>
        LET n == call.percentage[1]
            d == call.percentage[2]
            status == call.ret[1]
        IN  /\ n < 25 * d <=> status = "Very Low"
            /\ (25 * d <= n /\ n < 50 * d) <=> status = "Low"
            /\ (50 * d <= n /\ n < 75 * d) <=> status = "Moderate"
            /\ (75 * d <= n /\ n < 100 * d) <=> status = "Good"
            /\ (100 * d <= n /\ n < 150 * d) <=> status = "Excellent"
            /\ 150 * d <= n <=> status = "High"

\* C8 witness: the capped percentage 200 is "High".
C8_Witness ==
    /\ call.op = "get_nutrient_status"
    /\ call.percentage = <<200, 1>>
    /\ call.ret[1] = "High"

\* 10 * weight_kg + 6.25 * height_cm - 5 * age + k
Mifflin(weight_kg, height_cm, age, k) ==
    Rat(40 * weight_kg[1] * height_cm[2] + 25 * height_cm[1] * weight_kg[2]
            + 4 * weight_kg[2] * height_cm[2] * (k - 5 * age),
        4 * weight_kg[2] * height_cm[2])

\* C9 as stated: calculate_bmr uses + 5 when gender is the string "male" and
\* - 161 for every other gender string.
C9_BmrMaleStringOnly ==
    call.op = "calculate_bmr" =>
        call.ret = Mifflin(call.weight_kg, call.height_cm, call.age,
                           IF call.gender = "male" THEN 5 ELSE 0 - 161)

\* C9 amended: calculate_bmr uses + 5 when gender is "male" written in any
\* letter case and - 161 for every other gender string; there is no third
\* branch.
C9_BmrTwoBranches ==
    call.op = "calculate_bmr" =>
        call.ret = Mifflin(call.weight_kg, call.height_cm, call.age,
                           IF call.gender \in {"male", "Male", "MALE"}
                           THEN 5 ELSE 0 - 161)

\* C9 witness: "MALE", 70 kg, 175 cm, 30 years gave 1648.75.
C9_Witness ==
    /\ call.op = "calculate_bmr"
    /\ call.gender = "MALE"
    /\ call.weight_kg = <<70, 1>>
    /\ call.height_cm = <<175, 1>>
    /\ call.age = 30
    /\ call.ret = <<6595, 4>>

\* C10: calculate_tdee is BMR times 1.2, 1.375, 1.55, 1.725 or 1.9 for
\* sedentary, light, moderate, very_active, extremely_active, and BMR times
\* 1.55 for any other activity level.
C10_TdeeMultiplier ==
    call.op = "calculate_tdee" =>
        LET thousandths ==
                CASE call.activity_level = "sedentary"        -> 1200
                  [] call.activity_level = "light"            -> 1375
                  [] call.activity_level = "moderate"         -> 1550
                  [] call.activity_level = "very_active"      -> 1725
                  [] call.activity_level = "extremely_active" -> 1900
                  [] OTHER                                    -> 1550
        IN  call.ret = Rat(call.bmr[1] * thousandths, call.bmr[2] * 1000)

\* C10 witness: the unknown level "couch" gave 1648.75 * 1.55.
C10_Witness ==
    /\ call.op = "calculate_tdee"
    /\ call.activity_level = "couch"
    /\ call.bmr = <<6595, 4>>
    /\ call.ret = Rat(6595 * 155, 400)

----------------------------------------------------------------------------
(* Properties of the daily goals *)

\* C11: the calorie goal of calculate_daily_goals is TDEE - 500 for goal
\* "lose", TDEE + 500 for goal "gain" and TDEE itself for goal "maintain".
C11_CalorieGoal ==
    call.op = "calculate_daily_goals" =>
        LET n == call.tdee[1]
            d == call.tdee[2]
        IN  /\ call.goal = "lose" => call.ret.calories = Rat(n - 500 * d, d)
            /\ call.goal = "gain" => call.ret.calories = Rat(n + 500 * d, d)
            /\ call.goal = "maintain" => call.ret.calories = call.tdee

\* C11 witness: a TDEE of 1978.5 with goal "gain" gave 2478.5 kcal.
C11_Witness ==
    /\ call.op = "calculate_daily_goals"
    /\ call.goal = "gain"
    /\ call.tdee = <<3957, 2>>
    /\ call.ret.calories = <<4957, 2>>

\* C12: in the goals of calculate_daily_goals protein is 15 % of the calories
\* at 4 kcal/g, fat 30 % at 9 kcal/g and carbohydrates 55 % at 4 kcal/g, so
\* that protein * 4 + fat * 9 + carbohydrates * 4 = calories.
C12_MacroSplit ==
    call.op = "calculate_daily_goals" =>
        LET n == call.ret.calories[1]
            d == call.ret.calories[2]
            protein == call.ret.protein
            fat == call.ret.fat
            carbohydrates == call.ret.carbohydrates
        IN  /\ protein = Rat(15 * n, 400 * d)
            /\ fat = Rat(30 * n, 900 * d)
            /\ carbohydrates = Rat(55 * n, 400 * d)
            /\ RAdd(RAdd(RMul(<<4, 1>>, protein), RMul(<<9, 1>>, fat)),
                    RMul(<<4, 1>>, carbohydrates)) = call.ret.calories

\* C12 witness: 1000 kcal (TDEE 500, goal "gain") split into 37.5 g protein,
\* 100/3 g fat and 137.5 g carbohydrates.
C12_Witness ==
    /\ call.op = "calculate_daily_goals"
    /\ call.ret.calories = <<1000, 1>>
    /\ call.ret.protein = <<75, 2>>
    /\ call.ret.fat = <<100, 3>>
    /\ call.ret.carbohydrates = <<275, 2>>

\* C14: the iron goal is 18 when gender is female (in any letter case) and
\* age < 51, and 8 in every other case: a female of 51 or more, and every
\* other gender at any age.
C14_IronGoal ==
    call.op = "calculate_daily_goals" =>
        call.ret.iron =
            IF call.gender \in {"female", "Female"} /\ call.age < 51
            THEN <<18, 1>> ELSE <<8, 1>>

\* C14 witness: a female of exactly 51 has an iron goal of 8, one of 50 has 18.
C14_Witness ==
    /\ call.op = "calculate_daily_goals"
    /\ call.gender = "female"
    /\ call.age = 51
    /\ call.ret.iron = <<8, 1>>

\* The nutrients calculate_daily_goals may set apart from the static table
Computed == {"calories", "protein", "fat", "carbohydrates", "iron", "vitamin_d", "calcium"}

\* C15: for age > 70 vitamin_d is 20 and calcium 1200; for age <= 70 both
\* equal the static table; every nutrient other than calories, protein, fat,
\* carbohydrates, iron, vitamin_d and calcium always equals the static table.
C15_AgeOverrides ==
    call.op = "calculate_daily_goals" =>
        /\ call.age > 70 => /\ call.ret.vitamin_d = <<20, 1>>
                            /\ call.ret.calcium = <<1200, 1>>
        /\ call.age <= 70 => /\ call.ret.vitamin_d = daily_values.vitamin_d
                             /\ call.ret.calcium = daily_values.calcium
        /\ DOMAIN call.ret = DOMAIN daily_values
        /\ \A n \in DOMAIN daily_values \ Computed : call.ret[n] = daily_values[n]

\* C15 witness: at 71 the calcium goal is 1200 and a female's folate goal is
\* the table's 400.
C15_Witness ==
    /\ call.op = "calculate_daily_goals"
    /\ call.gender = "female"
    /\ call.age = 71
    /\ call.ret.calcium = <<1200, 1>>
    /\ call.ret.folate = <<400, 1>>

\* C16 as stated: any gender string other than "male" takes the female branch
\* of both rules: calculate_bmr uses - 161 and calculate_daily_goals sets
\* iron to 18 when age < 51.
C16_NonMaleIsFemale ==
    /\ (call.op = "calculate_bmr" /\ call.gender # "male") =>
            call.ret = Mifflin(call.weight_kg, call.height_cm, call.age, 0 - 161)
    /\ (call.op = "calculate_daily_goals" /\ call.gender # "male" /\ call.age < 51) =>
            call.ret.iron = <<18, 1>>

\* C16 amended: calculate_bmr uses - 161 for every gender string that is not
\* "male" in some letter case; calculate_daily_goals sets iron to 18 only for
\* "female" in some letter case with age < 51, and leaves it at 8 for every
\* other string, the ones that are neither male nor female included.
C16_TwoDifferentTests ==
    /\ (call.op = "calculate_bmr" /\ call.gender \notin {"male", "Male", "MALE"}) =>
            call.ret = Mifflin(call.weight_kg, call.height_cm, call.age, 0 - 161)
    /\ (call.op = "calculate_daily_goals" /\ call.gender \in {"female", "Female"}
            /\ call.age < 51) => call.ret.iron = <<18, 1>>
    /\ (call.op = "calculate_daily_goals" /\ call.gender \notin {"female", "Female"}) =>
            call.ret.iron = <<8, 1>>

\* C16 witness: the gender "other" at 50 has an iron goal of 8.
C16_Witness ==
    /\ call.op = "calculate_daily_goals"
    /\ call.gender = "other"
    /\ call.age = 50
    /\ call.ret.iron = <<8, 1>>

\* C13: for every profile the settings form accepts (age 10..120, weight
\* 20..300 kg, height 100..250 cm, either gender, any activity level, any
\* goal) every amount in the daily goals computed from it is non-negative.
C13_GoalsNonNegative ==
    call.op = "show_progress_view" =>
        \A n \in DOMAIN call.ret : call.ret[n][1] >= 0

\* a call that raised has no return value
Raised == "raised" \in DOMAIN call

\* C17: calculate_bmi, calculate_bmr and calculate_daily_goals fail with
\* InvalidProfile, and return no number, whenever the weight, the height or
\* the age they are given is zero or negative (calculate_tdee is given none
\* of the three: it works on the BMR).
C17_InvalidProfileRaised ==
    LET bad ==
            \/ /\ call.op = "calculate_bmi"
               /\ (call.weight_kg[1] <= 0 \/ call.height_cm[1] <= 0)
            \/ /\ call.op = "calculate_bmr"
               /\ (call.weight_kg[1] <= 0 \/ call.height_cm[1] <= 0 \/ call.age <= 0)
            \/ /\ call.op = "calculate_daily_goals"
               /\ call.age <= 0
    IN  bad => (Raised /\ call.raised = "InvalidProfile")

----------------------------------------------------------------------------
(* Properties of the portion scaling *)

\* C18: scale_nutrients_by_portion fails with InvalidPortion whenever
\* portion_grams <= 0 or reference_portion <= 0, and returns no vector then.
C18_InvalidPortionRaised ==
    (/\ call.op = "scale_nutrients_by_portion"
     /\ (call.portion_grams[1] <= 0 \/ call.reference_portion[1] <= 0))
        => (Raised /\ call.raised = "InvalidPortion")

\* C19: for portion > 0 and reference > 0 scale_nutrients_by_portion returns
\* a mapping with exactly the keys of its input, every value being the input
\* value times portion / reference, and the input mapping is as it was.
C19_ScaledByRatio ==
    (/\ call.op = "scale_nutrients_by_portion"
     /\ call.portion_grams[1] > 0
     /\ call.reference_portion[1] > 0)
        => /\ ~Raised
           /\ DOMAIN call.ret = DOMAIN call.nutrients
           /\ \A n \in DOMAIN call.nutrients :
                call.ret[n] =
                    Rat(call.nutrients[n][1] * call.portion_grams[1]
                            * call.reference_portion[2],
                        call.nutrients[n][2] * call.portion_grams[2]
                            * call.reference_portion[1])
           /\ call.nutrients_after = call.nutrients

\* C19 witness: 50 g of a food with 52 kcal and 2.4 g fiber per 100 g have
\* 26 kcal and 1.2 g fiber.
C19_Witness ==
    /\ call.op = "scale_nutrients_by_portion"
    /\ call.nutrients = [calories |-> <<52, 1>>, fiber |-> <<12, 5>>]
    /\ call.portion_grams = <<50, 1>>
    /\ call.reference_portion = <<100, 1>>
    /\ call.ret = [calories |-> <<26, 1>>, fiber |-> <<6, 5>>]
    /\ call.nutrients_after = call.nutrients

\* C20: scaling a vector from a portion p > 0 to the same portion p returns a
\* vector equal to it.
C20_SamePortionIdentity ==
    (/\ call.op = "scale_nutrients_by_portion"
     /\ call.portion_grams = call.reference_portion
     /\ call.portion_grams[1] > 0)
        => (~Raised /\ call.ret = call.nutrients)

\* C20 witness: 150.5 g of a food described per 150.5 g.
C20_Witness ==
    /\ call.op = "scale_nutrients_by_portion"
    /\ call.portion_grams = <<301, 2>>
    /\ call.reference_portion = <<301, 2>>
    /\ call.nutrients = [calories |-> <<155, 1>>, protein |-> <<63, 5>>]
    /\ call.ret = call.nutrients

----------------------------------------------------------------------------
(* The catalog client: utils/usda_api.py *)

\* get_nutrient_mapping: catalog nutrient name to internal identifier
nutrient_mapping ==
    [u \in {"Energy", "Protein", "Total lipid (fat)", "Carbohydrate, by difference",
            "Fiber, total dietary", "Sugars, total including NLEA", "Sodium, Na",
            "Calcium, Ca", "Iron, Fe", "Magnesium, Mg", "Phosphorus, P",
            "Potassium, K", "Zinc, Zn", "Copper, Cu", "Manganese, Mn", "Selenium, Se",
            "Vitamin C, total ascorbic acid", "Thiamin", "Riboflavin", "Niacin",
            "Pantothenic acid", "Vitamin B-6", "Folate, total", "Vitamin B-12",
            "Vitamin A, RAE", "Vitamin E (alpha-tocopherol)", "Vitamin D (D2 + D3)",
            "Vitamin K (phylloquinone)", "Cholesterol", "Fatty acids, total saturated",
            "Fatty acids, total monounsaturated",
            "Fatty acids, total polyunsaturated"} |->
        CASE u = "Energy" -> "calories"
          [] u = "Protein" -> "protein"
          [] u = "Total lipid (fat)" -> "fat"
          [] u = "Carbohydrate, by difference" -> "carbohydrates"
          [] u = "Fiber, total dietary" -> "fiber"
          [] u = "Sugars, total including NLEA" -> "sugar"
          [] u = "Sodium, Na" -> "sodium"
          [] u = "Calcium, Ca" -> "calcium"
          [] u = "Iron, Fe" -> "iron"
          [] u = "Magnesium, Mg" -> "magnesium"
          [] u = "Phosphorus, P" -> "phosphorus"
          [] u = "Potassium, K" -> "potassium"
          [] u = "Zinc, Zn" -> "zinc"
          [] u = "Copper, Cu" -> "copper"
          [] u = "Manganese, Mn" -> "manganese"
          [] u = "Selenium, Se" -> "selenium"
          [] u = "Vitamin C, total ascorbic acid" -> "vitamin_c"
          [] u = "Thiamin" -> "vitamin_b1"
          [] u = "Riboflavin" -> "vitamin_b2"
          [] u = "Niacin" -> "vitamin_b3"
          [] u = "Pantothenic acid" -> "vitamin_b5"
          [] u = "Vitamin B-6" -> "vitamin_b6"
          [] u = "Folate, total" -> "folate"
          [] u = "Vitamin B-12" -> "vitamin_b12"
          [] u = "Vitamin A, RAE" -> "vitamin_a"
          [] u = "Vitamin E (alpha-tocopherol)" -> "vitamin_e"
          [] u = "Vitamin D (D2 + D3)" -> "vitamin_d"
          [] u = "Vitamin K (phylloquinone)" -> "vitamin_k"
          [] u = "Cholesterol" -> "cholesterol"
          [] u = "Fatty acids, total saturated" -> "saturated_fat"
          [] u = "Fatty acids, total monounsaturated" -> "monounsaturated_fat"
          [] OTHER -> "polyunsaturated_fat"]

normalize_nutrients_keeping_unmapped(nutrients) ==
    LET standard_name(u) == Get(nutrient_mapping, u, u)
    IN  [s \in {standard_name(u) : u \in DOMAIN nutrients} |->
            nutrients[CHOOSE u \in DOMAIN nutrients : standard_name(u) = s].amount]

\* The loop writes normalized[mapping[usda_name]] for every name the mapping
\* has; no two names of the mapping share an identifier, so no write is
\* overwritten.
normalize_nutrients(nutrients) ==
    LET mapped == {u \in DOMAIN nutrients : u \in DOMAIN nutrient_mapping}
    IN  [s \in {nutrient_mapping[u] : u \in mapped} |->
            nutrients[CHOOSE u \in mapped : nutrient_mapping[u] = s].amount]

\* food_details['nutrients'] as get_food_details builds it: catalog name to
\* amount and unit.  "Water", "Caffeine" and "energy" are not in the mapping.
CatalogNames == {"Energy", "Protein", "Vitamin B-12", "Water", "Caffeine", "energy"}
CatalogAmounts == {Int2Rat(0), Rat(24, 10)}
CatalogNutrients ==
    UNION {[names -> [amount : CatalogAmounts, unit : {"G"}]] :
                names \in SUBSET CatalogNames}

NormalizeNutrients(nutrients) ==
    /\ call' = [op |-> "normalize_nutrients", nutrients |-> nutrients,
                ret |-> normalize_nutrients(nutrients)]
    /\ StoreUnchanged

NextCatalog == \E n \in CatalogNutrients : NormalizeNutrients(n)

SpecCatalog == Init /\ [][NextCatalog]_vars

\* C21: normalize_nutrients keeps exactly the catalog nutrients whose name is
\* in the mapping table, under the mapped identifier and with their amount,
\* drops every other one without raising, and returns an empty mapping when no
\* name is mapped.
C21_KeepsMappedOnly ==
    call.op = "normalize_nutrients" =>
        LET kept == DOMAIN call.nutrients \cap DOMAIN nutrient_mapping
        IN  /\ ~Raised
            /\ DOMAIN call.ret = {nutrient_mapping[u] : u \in kept}
            /\ \A u \in kept : call.ret[nutrient_mapping[u]] = call.nutrients[u].amount
            /\ Cardinality(DOMAIN call.ret) = Cardinality(kept)
            /\ kept = {} => call.ret = EmptyDict

\* C21 witness: of Energy, Water and the lower-case "energy" only Energy is
\* kept, as calories.
C21_Witness ==
    /\ call.op = "normalize_nutrients"
    /\ DOMAIN call.nutrients = {"Energy", "Water", "energy"}
    /\ call.nutrients["Energy"].amount = <<12, 5>>
    /\ call.nutrients["energy"].amount = <<0, 1>>
    /\ call.ret = [calories |-> <<12, 5>>]

----------------------------------------------------------------------------
(* Body measurements in the session store: utils/data_storage.py and the  *)
(* form of pages/measurements.py                                           *)

\* Python's None
None == <<>>

\* The form's inputs: a date up to today, weight and height within the
\* number inputs' ranges, a body fat percentage, a muscle mass and a waist
\* that are 0 when left alone, and free notes.
FormDates == (today - PastDays)..today
FormBodyFat == {Int2Rat(0), Rat(41, 2)}
FormNotes == {"", "fasted"}

\* measurement_data as the submitted form builds it: an optional number left
\* at 0 and notes that strip to nothing become None.
measurement_data(measurement_date, weight_kg, height_cm, body_fat_percent, muscle_mass_kg, waist_cm, notes) ==
    [date |-> measurement_date,
     weight_kg |-> weight_kg,
     height_cm |-> height_cm,
     body_fat_percent |-> IF body_fat_percent[1] > 0 THEN body_fat_percent ELSE None,
     muscle_mass_kg |-> IF muscle_mass_kg[1] > 0 THEN muscle_mass_kg ELSE None,
     waist_cm |-> IF waist_cm[1] > 0 THEN waist_cm ELSE None,
     notes |-> IF notes # "" THEN notes ELSE None]

\* DataStorage.add_measurement: stamp, append, keep the latest HistoryLimit
\* records.  The code keeps 100; the model keeps HistoryLimit, small enough
\* for the truncation to happen.
AddMeasurementResult(history, data, now) ==
    LET appended == Append(history, DictUpdate(data, [timestamp |-> now]))
    IN  IF Len(appended) > HistoryLimit
        THEN SubSeq(appended, Len(appended) - HistoryLimit + 1, Len(appended))
        ELSE appended

\* show_add_measurement with the form submitted, in a guest session: the
\* record goes to the session store and the profile takes the weight and the
\* height.
show_add_measurement(measurement_date, weight_kg, height_cm, body_fat_percent, muscle_mass_kg, waist_cm, notes) ==
    LET data == measurement_data(measurement_date, weight_kg, height_cm,
                                 body_fat_percent, muscle_mass_kg, waist_cm, notes)
    IN  /\ clock <= MaxMeasureClock
        /\ measurements_history' = AddMeasurementResult(measurements_history, data, clock)
        /\ user_profile' = [user_profile EXCEPT !.weight_kg = weight_kg,
                                                !.height_cm = height_cm]
        /\ clock' = clock + 1
        /\ call' = [op |-> "add_measurement", date |-> measurement_date, timestamp |-> clock]
        /\ UNCHANGED <<daily_entries, food_database, today, food_entries, next_id,
                       measurements, session_current_date, auth_session, query_params,
                       users>>

\* measurements_history of a backup file: what export_data wrote in an earlier
\* session, whose clock read 0
ExportedHistories ==
    {<<DictUpdate(measurement_data(0, Int2Rat(70), Int2Rat(175), Int2Rat(0),
                                   Int2Rat(0), Int2Rat(0), ""),
                  [timestamp |-> 0])>>}

\* import_data of a backup file that holds measurements_history only
import_measurements(mh) ==
    /\ Len(measurements_history) <= HistoryLimit
    /\ measurements_history' = measurements_history \o mh
    /\ call' = [op |-> "import_data"]
    /\ UNCHANGED <<daily_entries, food_database, user_profile, clock, today,
                   food_entries, next_id, measurements, session_current_date,
                   auth_session, query_params, users>>

get_latest_measurement ==
    IF measurements_history # <<>>
    THEN measurements_history[Len(measurements_history)]
    ELSE None

GetMeasurementsHistory ==
    /\ call' = [op |-> "get_measurements_history", ret |-> measurements_history]
    /\ StoreUnchanged

GetLatestMeasurement ==
    /\ call' = [op |-> "get_latest_measurement", ret |-> get_latest_measurement]
    /\ StoreUnchanged

NextMeasure ==
    \/ \E d \in FormDates, f \in FormBodyFat :
            show_add_measurement(d, Rat(141, 2), Int2Rat(175), f, Int2Rat(0),
                                 Int2Rat(0), "")
    \/ \E mh \in ExportedHistories : import_measurements(mh)
    \/ clear_all_data
    \/ GetMeasurementsHistory
    \/ GetLatestMeasurement

SpecMeasure == Init /\ [][NextMeasure]_vars

\* C22: the session's measurement history never holds more records than the
\* limit, whatever add_measurement, import_data and clear_all_data did, and
\* after add_measurement its last record is the one just added, behind the
\* records added before it in the order of their adding (a record of this
\* session has a timestamp above 0, an imported one has 0).
C22_HistoryWithinLimit ==
    /\ Len(measurements_history) <= HistoryLimit
    /\ call.op = "add_measurement" =>
            /\ measurements_history # <<>>
            /\ measurements_history[Len(measurements_history)].timestamp = call.timestamp
            /\ \A i, j \in 1..Len(measurements_history) :
                    (/\ i < j
                     /\ measurements_history[i].timestamp > 0
                     /\ measurements_history[j].timestamp > 0)
                        => measurements_history[i].timestamp
                                < measurements_history[j].timestamp

\* C23: get_measurements_history returns the stored measurements newest
\* first by measurement date, also when a measurement dated earlier than a
\* stored one was added later.
C23_HistoryNewestFirst ==
    call.op \in {"get_measurements_history", "db_get_measurements_history"} =>
        \A i, j \in 1..Len(call.ret) : i < j => call.ret[i].date >= call.ret[j].date

\* C27: get_latest_measurement returns a measurement whose date is the
\* greatest among the stored measurements, in the session store and in the
\* database store alike.
C27_LatestHasGreatestDate ==
    /\ (call.op = "get_latest_measurement" /\ measurements_history # <<>>) =>
            \A i \in 1..Len(measurements_history) :
                measurements_history[i].date <= call.ret.date
    /\ (call.op = "db_get_latest_measurement" /\ measurements # <<>>) =>
            \A i \in 1..Len(measurements) : measurements[i].date <= call.ret.date

----------------------------------------------------------------------------
(* Body measurements in the database store *)

\* The attributes of the Measurement class that a record may set
MeasurementColumns ==
    {"weight_kg", "body_fat_percent", "muscle_mass_kg", "waist_cm", "chest_cm",
     "arms_cm", "thighs_cm"}

\* measurement_data.pop('date', ...): the dict without its date
WithoutDate(data) == [k \in DOMAIN data \ {"date"} |-> data[k]]

\* Measurement(user_id=..., date=..., **measurement_data): the declarative
\* constructor raises TypeError for a keyword that is no attribute of the
\* class.
ConstructorAccepts(kwargs) == DOMAIN kwargs \subseteq MeasurementColumns

\* The row the commit inserts; a column not given is NULL.  created_at is not
\* modelled: no operation of the store reads it.
MeasurementRow(id, date_str, kwargs) ==
    [c \in {"id", "date"} \cup MeasurementColumns |->
        IF c = "id" THEN id
        ELSE IF c = "date" THEN date_str
        ELSE Get(kwargs, c, None)]

\* DatabaseDataStorage.add_measurement over DatabaseManager.add_measurement.
\* When the constructor raises, nothing is inserted; in show_add_measurement
\* the exception also skips the update of the profile.
db_add_measurement(data) ==
    LET kwargs == WithoutDate(data)
    IN  /\ Len(measurements) < MaxRows
        /\ IF ConstructorAccepts(kwargs)
           THEN /\ measurements' =
                        Append(measurements,
                               MeasurementRow(Len(measurements) + 1, data.date, kwargs))
                /\ call' = [op |-> "db_add_measurement", data |-> data, ret |-> TRUE]
           ELSE /\ measurements' = measurements
                /\ call' = [op |-> "db_add_measurement", data |-> data,
                            raised |-> "TypeError"]
        /\ UNCHANGED <<daily_entries, food_database, measurements_history, user_profile,
                       clock, today, food_entries, next_id, session_current_date,
                       auth_session, query_params, users>>

\* The orders in which a sequence can be listed by date, newest first: rows of
\* the same date come in an order the database chooses.
ByDateDescending(rows) ==
    LET n == Len(rows)
        orders == {p \in [1..n -> 1..n] :
                        /\ \A i, j \in 1..n : i # j => p[i] # p[j]
                        /\ \A i \in 1..(n - 1) : rows[p[i]].date >= rows[p[i + 1]].date}
    IN  {[i \in 1..n |-> rows[orders_p[i]]] : orders_p \in orders}

\* DatabaseDataStorage.get_measurements_history: the eight keys it copies
FormatMeasurements(rows) ==
    [i \in 1..Len(rows) |->
        [k \in {"date"} \cup MeasurementColumns |-> rows[i][k]]]

DbGetMeasurementsHistory ==
    /\ \E rows \in ByDateDescending(measurements) :
            call' = [op |-> "db_get_measurements_history",
                     ret |-> FormatMeasurements(rows)]
    /\ StoreUnchanged

\* DatabaseDataStorage.get_latest_measurement: the first of the history
DbGetLatestMeasurement ==
    /\ \E rows \in ByDateDescending(measurements) :
            call' = [op |-> "db_get_latest_measurement",
                     ret |-> IF rows # <<>> THEN FormatMeasurements(rows)[1] ELSE None]
    /\ StoreUnchanged

\* Records that name columns of the table only
ColumnRecords ==
    {[date |-> d, weight_kg |-> w] :
        d \in FormDates, w \in {Int2Rat(70), Rat(141, 2), Int2Rat(300)}}

NextDbMeasure ==
    \/ \E d \in FormDates, f \in FormBodyFat, n \in FormNotes :
            db_add_measurement(measurement_data(d, Rat(141, 2), Int2Rat(175), f,
                                                Int2Rat(0), Int2Rat(0), n))
    \/ \E data \in ColumnRecords : db_add_measurement(data)
    \/ DbGetMeasurementsHistory
    \/ DbGetLatestMeasurement

SpecDbMeasure == Init /\ [][NextDbMeasure]_vars

\* the keys of a record submitted from the measurement form
FormKeys ==
    {"date", "weight_kg", "height_cm", "body_fat_percent", "muscle_mass_kg",
     "waist_cm", "notes"}

\* C24: a measurement submitted from the measurement form is added without
\* error on the session store and on the database store, and is then among
\* the stored measurements.
C24_FormMeasurementStored ==
    /\ call.op = "add_measurement" =>
            \E i \in 1..Len(measurements_history) :
                /\ measurements_history[i].date = call.date
                /\ measurements_history[i].timestamp = call.timestamp
    /\ (call.op = "db_add_measurement" /\ DOMAIN call.data = FormKeys) =>
            /\ ~Raised
            /\ \E i \in 1..Len(measurements) : measurements[i].date = call.data.date

----------------------------------------------------------------------------
(* Properties of the diary's entry ids *)

\* C25: in the session store no two entries stored under the same date have
\* the same entry_id, whatever add_food_entry and remove_food_entry did.
C25_EntryIdsUnique ==
    \A d \in DOMAIN daily_entries : \A i, j \in 1..Len(daily_entries[d]) :
        i # j => daily_entries[d][i].entry_id # daily_entries[d][j].entry_id

\* C26: Remove pressed on an entry listed for a date deletes exactly that
\* entry: the date's list gets shorter by one and is the old list without the
\* entry at the position of the button.
C26_RemoveDeletesOne ==
    [][\A d \in DOMAIN daily_entries : \A i \in 1..Len(daily_entries[d]) :
            (/\ call'.op = "remove_food_entry"
             /\ call'.date = d
             /\ call'.entry_id = daily_entries[d][i].entry_id)
                => /\ Len(daily_entries'[d]) = Len(daily_entries[d]) - 1
                   /\ \A j \in 1..Len(daily_entries[d]) :
                        j # i => \E k \in 1..Len(daily_entries'[d]) :
                                    daily_entries'[d][k] = daily_entries[d][j]]_vars

----------------------------------------------------------------------------
(* The date of the diary view: pages/calendar_view.py *)

next_day_unguarded(current, pressed) ==
    IF pressed THEN current + 1 ELSE current

\* "Next Day" pressed: the date moves on only while it is before today
next_day(current, pressed) ==
    IF pressed /\ current < today THEN current + 1 ELSE current

\* The dates the picker offers: none after today (max_value); the model goes
\* MaxBack days back.
PickerDates == (today - MaxBack)..today

\* One run of show_calendar_view: "Previous Day" pressed, or else a date
\* picked that is not the current one, or else "Next Day" pressed.  The first
\* of the three that applies sets the date and ends the run with st.rerun().
show_calendar_view(previous_pressed, selected_date, next_pressed) ==
    /\ session_current_date > today - MaxBack
    /\ session_current_date' =
            IF previous_pressed THEN session_current_date - 1
            ELSE IF selected_date # session_current_date THEN selected_date
            ELSE next_day(session_current_date, next_pressed)
    /\ call' = [op |-> "show_calendar_view", current_date |-> session_current_date,
                previous_pressed |-> previous_pressed,
                selected_date |-> selected_date, next_pressed |-> next_pressed]
    /\ UNCHANGED <<daily_entries, food_database, measurements_history, user_profile,
                   clock, today, food_entries, next_id, measurements, auth_session,
                   query_params, users>>

NextCalendar ==
    \/ \E selected_date \in PickerDates :
            show_calendar_view(TRUE, selected_date, FALSE)
    \/ \E selected_date \in PickerDates :
            show_calendar_view(FALSE, selected_date, FALSE)
    \/ \E selected_date \in PickerDates :
            show_calendar_view(FALSE, selected_date, TRUE)
    \/ NextDay

SpecCalendar == Init /\ [][NextCalendar]_vars

\* C30: starting from today, current_date is never later than today after
\* any sequence of Previous Day, Next Day and date picker actions.
C30_CurrentDateNotAfterToday == session_current_date <= today

\* C30 witness: on the second day the view shows today and Next Day is
\* pressed, with the picker left alone: the date stays.
C30_Witness ==
    /\ call.op = "show_calendar_view"
    /\ call.next_pressed
    /\ ~call.previous_pressed
    /\ today = 2
    /\ call.current_date = today
    /\ call.selected_date = today
    /\ session_current_date = today

----------------------------------------------------------------------------
(* The sign-in: utils/auth.py *)

\* The state tokens flow.authorization_url can generate (it draws a new random
\* token at every call), the authorization codes of a callback, and the
\* accounts Google can report.
OAuthStates == {"s1", "s2"}
OAuthCodes == {"c1"}
GoogleIds == {"g1", "g2"}

\* _get_user_info on success
GoogleUserInfo(google_id) ==
    [id |-> google_id, email |-> google_id, name |-> google_id]

\* the account a signed-in session holds
SessionUserInfo(user) ==
    [id |-> user.id, google_id |-> user.google_id, email |-> user.email,
     name |-> user.name, profile_picture |-> user.profile_picture]

\* DatabaseManager.create_or_update_user: the row of that google_id gets the
\* login time, the email and the name; a new google_id gets a new row.
create_or_update_user(rows, user_info, now) ==
    IF \E i \in 1..Len(rows) : rows[i].google_id = user_info.id
    THEN [i \in 1..Len(rows) |->
            IF rows[i].google_id = user_info.id
            THEN [rows[i] EXCEPT !.last_login = now, !.email = user_info.email,
                                 !.name = user_info.name]
            ELSE rows[i]]
    ELSE Append(rows, [id |-> Len(rows) + 1, google_id |-> user_info.id,
                       email |-> user_info.email, name |-> user_info.name,
                       profile_picture |-> None, last_login |-> now])

\* the row of a google_id
UserOf(rows, google_id) ==
    rows[CHOOSE i \in 1..Len(rows) : rows[i].google_id = google_id]

handle_callback_unvalidated(state, stored_state, token_ok, google_id, rows, now) ==
    IF ~token_ok \/ google_id = "none"
    THEN [user_info |-> None, users |-> rows]
    ELSE LET after == create_or_update_user(rows, GoogleUserInfo(google_id), now)
             user == UserOf(after, google_id)
         IN  [user_info |-> SessionUserInfo(user), users |-> after]

\* GoogleAuth.handle_callback with a client id configured: what it returns and
\* the users table it leaves.  token_ok says whether flow.fetch_token(code)
\* succeeds; google_id is the account _get_user_info reports, "none" when it
\* reports nothing.
handle_callback(state, stored_state, token_ok, google_id, rows, now) ==
    IF state # stored_state
    THEN [user_info |-> None, users |-> rows]
    ELSE IF ~token_ok \/ google_id = "none"
    THEN [user_info |-> None, users |-> rows]
    ELSE LET after == create_or_update_user(rows, GoogleUserInfo(google_id), now)
             user == UserOf(after, google_id)
         IN  [user_info |-> SessionUserInfo(user), users |-> after]

GuestUserInfo == [id |-> 0, name |-> "Guest User", email |-> "guest@example.com"]

\* the query parameters carry an authorization code and a state
HasCallback(params) == {"code", "state"} \subseteq DOMAIN params

\* One run of show_auth_ui.  client_id says whether GOOGLE_CLIENT_ID is
\* configured, fresh_state is the token flow.authorization_url draws in this
\* run, guest_pressed and signin_pressed are the two buttons, token_ok and
\* google_id are the answers of Google to the code exchange and to the
\* user-info request.
show_auth_ui(client_id, fresh_state, guest_pressed, signin_pressed, token_ok, google_id) ==
    /\ clock <= MaxClock
    /\ LET started == IF "authenticated" \in DOMAIN auth_session THEN auth_session
                      ELSE DictUpdate(auth_session, [authenticated |-> FALSE])
           issued == DictUpdate(started, [oauth_state |-> fresh_state])
           answer == handle_callback(query_params["state"], issued["oauth_state"],
                                     token_ok, google_id, users, clock)
       IN  IF started["authenticated"]
           THEN /\ auth_session' = started
                /\ call' = [op |-> "show_auth_ui", ret |-> TRUE]
                /\ UNCHANGED <<query_params, users, clock>>
           ELSE IF ~client_id
           THEN /\ auth_session' = IF guest_pressed
                       THEN DictUpdate(started, [authenticated |-> TRUE,
                                                 user_info |-> GuestUserInfo])
                       ELSE started
                /\ call' = [op |-> "show_auth_ui", ret |-> FALSE, client_id |-> FALSE,
                            guest_pressed |-> guest_pressed]
                /\ UNCHANGED <<query_params, users, clock>>
           ELSE IF signin_pressed
           THEN /\ auth_session' = issued
                /\ call' = [op |-> "show_auth_ui", stopped |-> TRUE, client_id |-> TRUE,
                            auth_url_state |-> fresh_state]
                /\ UNCHANGED <<query_params, users, clock>>
           ELSE IF ~HasCallback(query_params)
           THEN /\ auth_session' = issued
                /\ call' = [op |-> "show_auth_ui", ret |-> FALSE, client_id |-> TRUE,
                            auth_url_state |-> fresh_state]
                /\ UNCHANGED <<query_params, users, clock>>
           ELSE /\ users' = answer.users
                /\ clock' = IF answer.users # users THEN clock + 1 ELSE clock
                /\ auth_session' = IF answer.user_info # None
                       THEN DictUpdate(issued, [authenticated |-> TRUE,
                                                user_info |-> answer.user_info,
                                                user_id |-> answer.user_info.id])
                       ELSE issued
                /\ query_params' = IF answer.user_info # None THEN EmptyDict
                                   ELSE query_params
                /\ call' = [op |-> "show_auth_ui", ret |-> FALSE, client_id |-> TRUE,
                            auth_url_state |-> fresh_state,
                            callback_state |-> query_params["state"],
                            token_ok |-> token_ok, google_id |-> google_id,
                            user_info |-> answer.user_info]
    /\ UNCHANGED <<daily_entries, food_database, measurements_history, user_profile,
                   today, food_entries, next_id, measurements, session_current_date>>

\* The browser comes back to the application with an authorization code and a
\* state in the address: Google's redirect after the user followed the
\* authorization URL, or any other link to the application.
callback_arrives(code, state) ==
    /\ query_params' = [code |-> code, state |-> state]
    /\ call' = [op |-> "callback_arrives", state |-> state]
    /\ UNCHANGED <<daily_entries, food_database, measurements_history, user_profile,
                   clock, today, food_entries, next_id, measurements,
                   session_current_date, auth_session, users>>

\* The Sign Out button, which a signed-in session shows: GoogleAuth.logout
logout ==
    /\ Get(auth_session, "authenticated", FALSE)
    /\ "user_info" \in DOMAIN auth_session
    /\ auth_session' = [k \in DOMAIN auth_session \
                            {"authenticated", "user_info", "oauth_state", "user_id",
                             "current_user"} |-> auth_session[k]]
    /\ call' = [op |-> "logout"]
    /\ UNCHANGED <<daily_entries, food_database, measurements_history, user_profile,
                   clock, today, food_entries, next_id, measurements,
                   session_current_date, query_params, users>>

NextAuth ==
    \/ \E fresh_state \in OAuthStates, token_ok \in BOOLEAN,
          google_id \in GoogleIds \cup {"none"} :
            show_auth_ui(TRUE, fresh_state, FALSE, FALSE, token_ok, google_id)
    \/ \E fresh_state \in OAuthStates :
            show_auth_ui(TRUE, fresh_state, FALSE, TRUE, TRUE, "none")
    \/ \E guest_pressed \in BOOLEAN :
            show_auth_ui(FALSE, "s1", guest_pressed, FALSE, TRUE, "none")
    \/ \E code \in OAuthCodes, state \in OAuthStates : callback_arrives(code, state)
    \/ logout

SpecAuth == Init /\ [][NextAuth]_vars

\* a run of show_auth_ui that got as far as handling the callback
CallbackHandled == call.op = "show_auth_ui" /\ "callback_state" \in DOMAIN call

\* C28: when the address carries the state this session issued (the one it
\* holds when the callback arrives), the code exchange succeeds and Google
\* reports an account, the run of show_auth_ui that handles the callback sets
\* authenticated to True and user_id to the id of that account's user.
C28_IssuedStateAuthenticates ==
    [][(/\ CallbackHandled'
        /\ "oauth_state" \in DOMAIN auth_session
        /\ query_params["state"] = auth_session["oauth_state"]
        /\ call'.token_ok
        /\ call'.google_id # "none")
       => (/\ auth_session'["authenticated"]
           /\ "user_id" \in DOMAIN auth_session'
           /\ auth_session'["user_id"] = UserOf(users', call'.google_id).id)]_vars

\* C29: a run of show_auth_ui that finds a callback in the address whose state
\* differs from the oauth_state the session holds when handle_callback
\* compares them leaves the users table as it was, gets no user info from
\* handle_callback, does not give the session a user_id, and leaves a session
\* that was not authenticated either not authenticated or a guest.
C29_MismatchedStateRejected ==
    [][(/\ call'.op = "show_auth_ui"
        /\ HasCallback(query_params)
        /\ \/ "oauth_state" \notin DOMAIN auth_session'
           \/ query_params["state"] # auth_session'["oauth_state"])
       => (/\ users' = users
           /\ "user_info" \in DOMAIN call' => call'.user_info = None
           /\ "user_id" \in DOMAIN auth_session' =>
                  /\ "user_id" \in DOMAIN auth_session
                  /\ auth_session'["user_id"] = auth_session["user_id"]
           /\ auth_session'["authenticated"] =>
                  \/ Get(auth_session, "authenticated", FALSE)
                  \/ auth_session'["user_info"] = GuestUserInfo)]_vars

C29_Witness ==
    /\ CallbackHandled
    /\ call.callback_state # auth_session["oauth_state"]
    /\ call.token_ok
    /\ call.google_id # "none"
    /\ call.user_info = None
    /\ HasCallback(query_params)
    /\ ~auth_session["authenticated"]
    /\ "user_id" \notin DOMAIN auth_session

====
